---- MODULE Spec2Model ----
(***************************************************************************)
(* A model of sectxt.Parser (src/sectxt/__init__.py): the line-by-line     *)
(* security.txt classifier, its field extractor, the expiry check and the  *)
(* cross-field pass.                                                       *)
(*                                                                         *)
(* Text is a sequence of tokens.  The characters the code tests one by one *)
(* are tokens of their own: the line feed, the colon, the comma, each      *)
(* white space character, a "#" and a "-" that stand alone.  Every other   *)
(* token is a run of characters that holds no line feed, colon, comma or   *)
(* white space and does not begin with "#", so that split, rstrip, lstrip, *)
(* startswith, "in" and slicing act on tokens exactly as the code acts on  *)
(* characters.  The three PGP armor lines are single tokens.               *)
(*                                                                         *)
(* SecurityTXT probes its four locations; the servers' answers are an      *)
(* input of the run (net).  The body of an answer is a sequence of bytes,  *)
(* each written as two hexadecimal digits, or a run of ASCII bytes written *)
(* as the token it encodes; _get_str makes it a text, which is handed to   *)
(* the same pass.                                                          *)
(***************************************************************************)
EXTENDS Integers, Sequences, FiniteSets, TLC

VARIABLES content, urls, recommend_unknown_fields, now, pgp_blob,
          resp_content, lines, line_no, line_info, errors, recommendations, notifications,
          values, langs, signed, reading_sig, finished_sig, pc, exc,
          net, probe, gets, security_txt_found, path, url

vars == <<content, urls, recommend_unknown_fields, now, pgp_blob,
          resp_content, lines, line_no, line_info, errors, recommendations, notifications,
          values, langs, signed, reading_sig, finished_sig, pc, exc,
          net, probe, gets, security_txt_found, path, url>>

\* The fields and loop variables of SecurityTXT that Parser does not have.
probe_vars == <<net, probe, gets, security_txt_found, path, url>>

(***************************************************************************)
(* Tokens                                                                  *)
(***************************************************************************)
LF == "\n"
SP == " "
Whitespace == {" ", "\t", "\r"}

BEGIN_SIGNED == "-----BEGIN PGP SIGNED MESSAGE-----"
BEGIN_SIGNATURE == "-----BEGIN PGP SIGNATURE-----"
END_SIGNATURE == "-----END PGP SIGNATURE-----"

\* Python's None, for a line number and for the urls argument.
None == 0

(***************************************************************************)
(* String primitives, on token sequences                                   *)
(***************************************************************************)
Drop(s, n) == SubSeq(s, n + 1, Len(s))

\* str.find for a one-character needle: the first index, 0 when absent.
Find(s, c) ==
    IF \E i \in 1..Len(s) : s[i] = c
    THEN CHOOSE i \in 1..Len(s) : s[i] = c /\ \A j \in 1..(i - 1) : s[j] # c
    ELSE 0

Contains(s, c) == Find(s, c) # 0

\* Faulty variant: a split that forgets an empty piece after the last
\* separator, as str.splitlines does.
RECURSIVE SplitDropsLast(_, _)
SplitDropsLast(s, sep) ==
    LET i == Find(s, sep)
    IN  IF i = 0 THEN IF s = <<>> THEN <<>> ELSE <<s>>
        ELSE <<SubSeq(s, 1, i - 1)>> \o SplitDropsLast(Drop(s, i), sep)

\* str.split(sep): every separator ends a piece, so k separators give k + 1
\* pieces, the empty ones included.
RECURSIVE SplitOn(_, _)
SplitOn(s, sep) ==
    LET i == Find(s, sep)
    IN  IF i = 0 THEN <<s>>
        ELSE <<SubSeq(s, 1, i - 1)>> \o SplitOn(Drop(s, i), sep)

RECURSIVE RStrip(_)
RStrip(s) ==
    IF s # <<>> /\ s[Len(s)] \in Whitespace
    THEN RStrip(SubSeq(s, 1, Len(s) - 1))
    ELSE s

RECURSIVE LStrip(_)
LStrip(s) ==
    IF s # <<>> /\ s[1] \in Whitespace THEN LStrip(Tail(s)) ELSE s

Strip(s) == LStrip(RStrip(s))

StartsWith(s, p) == Len(s) >= Len(p) /\ SubSeq(s, 1, Len(p)) = p

\* str.lower, token by token.
LowerTok(t) ==
    CASE t = "Contact" -> "contact"
      [] t = "Expires" -> "expires"
      [] t = "EXPIRES" -> "expires"
      [] t = "Hash" -> "hash"
      [] t = "Canonical" -> "canonical"
      [] t = "Encryption" -> "encryption"
      [] t = "CSAF" -> "csaf"
      [] t = "Preferred-Languages" -> "preferred-languages"
      [] t = "Foo" -> "foo"
      [] t = "Text/Plain" -> "text/plain"
      [] t = "Charset" -> "charset"
      [] t = "csUTF8" -> "csutf8"
      [] OTHER -> t

Lower(s) == [i \in 1..Len(s) |-> LowerTok(s[i])]

(***************************************************************************)
(* The libraries the parser calls, by what they return on the values of    *)
(* this model                                                              *)
(***************************************************************************)
\* urllib.parse.urlsplit(value).scheme: the text before the first colon when
\* it is made of scheme characters only, lower-cased; "" otherwise.
SchemeWords == {"https", "http", "mailto"}

UrlScheme(value) ==
    IF Len(value) >= 2 /\ value[2] = ":" /\ LowerTok(value[1]) \in SchemeWords
    THEN LowerTok(value[1])
    ELSE ""

\* urlsplit raises ValueError ("Invalid IPv6 URL") when the network location
\* holds one square bracket without the other.
UnbalancedNetloc == {"//[bad"}

UrlSplitRaises(value) == \E i \in 1..Len(value) : value[i] \in UnbalancedNetloc

\* langcodes.tag_is_valid
ValidTags == {<<"en">>, <<"nl">>}

tag_is_valid(tag) == tag \in ValidTags

\* str.endswith("provider-metadata.json")
ProviderMetadataTokens == {"//example.com/provider-metadata.json"}

EndsWithProviderMetadata(v) == v # <<>> /\ v[Len(v)] \in ProviderMetadataTokens

(***************************************************************************)
(* Dates.  A datetime is a calendar day at 00:00:00 UTC.                   *)
(***************************************************************************)
Leap(y) == y % 4 = 0 /\ (y % 100 # 0 \/ y % 400 = 0)

DaysInMonth(y, m) ==
    CASE m = 2 -> IF Leap(y) THEN 29 ELSE 28
      [] m \in {4, 6, 9, 11} -> 30
      [] OTHER -> 31

ValidDate(dt) == dt.m \in 1..12 /\ dt.d \in 1..DaysInMonth(dt.y, dt.m)

\* datetime.__lt__
Before(a, b) ==
    \/ a.y < b.y
    \/ a.y = b.y /\ a.m < b.m
    \/ a.y = b.y /\ a.m = b.m /\ a.d < b.d

\* The date and hour part of the Expires values of this model.
DayOf ==
    ("2024-02-28T00" :> [y |-> 2024, m |-> 2, d |-> 28]) @@
    ("2024-02-29T00" :> [y |-> 2024, m |-> 2, d |-> 29]) @@
    ("2025-02-28T00" :> [y |-> 2025, m |-> 2, d |-> 28]) @@
    ("2025-02-29T00" :> [y |-> 2025, m |-> 2, d |-> 29]) @@
    ("2025-03-01T00" :> [y |-> 2025, m |-> 3, d |-> 1]) @@
    ("2025-03-02T00" :> [y |-> 2025, m |-> 3, d |-> 2]) @@
    ("2025-04-04T00" :> [y |-> 2025, m |-> 4, d |-> 4])

\* A date without a time, which dateutil reads and the pattern refuses.
DateOnly == ("2025-01-01" :> [y |-> 2025, m |-> 1, d |-> 1])

\* iso8601_re.match(value): date, T, hh:mm:ss, zone.
Iso8601Match(value) ==
    /\ Len(value) = 5
    /\ value[1] \in DOMAIN DayOf
    /\ value[2] = ":" /\ value[3] = "00" /\ value[4] = ":" /\ value[5] = "00Z"

\* dateutil.parser.parse(value): the datetime, or ParserError (a date that is
\* not in the calendar included).
DateutilParse(value) ==
    IF Iso8601Match(value) /\ ValidDate(DayOf[value[1]])
    THEN [ok |-> TRUE, dt |-> DayOf[value[1]]]
    ELSE IF Len(value) = 1 /\ value[1] \in DOMAIN DateOnly
    THEN [ok |-> TRUE, dt |-> DateOnly[value[1]]]
    ELSE [ok |-> FALSE, dt |-> [y |-> 0, m |-> 0, d |-> 0]]

\* datetime.replace(year=...): ValueError when the day is not in that year.
ReplaceYearRaises(dt, y) == ~ValidDate([dt EXCEPT !.y = y])

ReplaceYear(dt, y) == [dt EXCEPT !.y = y]

(***************************************************************************)
(* Parser                                                                  *)
(***************************************************************************)
PREFERRED_LANGUAGES == <<"preferred-languages">>

uri_fields ==
    {<<"acknowledgments">>, <<"canonical">>, <<"contact">>, <<"encryption">>,
     <<"hiring">>, <<"policy">>, <<"csaf">>}

known_fields == uri_fields \cup {PREFERRED_LANGUAGES, <<"expires">>}

\* The urls argument: None, one str or a list of str; _urls: None or a list.
\* Both are records [t, l] with t the Python type and l the strings.
NoneArg == [t |-> "None", l |-> <<>>]

StrArg(str) == [t |-> "str", l |-> <<str>>]

ListArg(list) == [t |-> "list", l |-> list]

strlist_from_arg(arg) == IF arg.t = "str" THEN ListArg(arg.l) ELSE arg

\* The truth value of _urls: neither None nor the empty list.
Truthy(list) == list.t # "None" /\ list.l # <<>>

\* An ErrorDict without its message, which is a fixed text per code.
Diag(code, line) == [code |-> code, line |-> line]

\* Faulty variant: the diagnostics left without their line.
DiagsUnnumbered(codes, line) == [i \in 1..Len(codes) |-> Diag(codes[i], None)]

Diags(codes, line) == [i \in 1..Len(codes) |-> Diag(codes[i], line)]

Codes(list) == [i \in 1..Len(list) |-> list[i].code]

HasCode(list, code) == \E i \in 1..Len(list) : list[i].code = code

HasAt(list, code, line) ==
    \E i \in 1..Len(list) : list[i].code = code /\ list[i].line = line

\* Faulty variant: the explicit line number left unused.
ErrorLineCurrent(explicit_line_no, cur) == cur

\* _add_error's choice of the line: "if explicit_line_no" is a truth test.
ErrorLine(explicit_line_no, cur) ==
    IF explicit_line_no # None THEN explicit_line_no ELSE cur

If(c, code) == IF c THEN <<code>> ELSE <<>>

\* Faulty variant: the years compared instead of the instants.
ExpiredByYear(date_value, t) == date_value.y < t.y

\* date_value < now
IsExpired(date_value, t) == Before(date_value, t)

\* date_value > max_value
IsTooLong(date_value, max_value) == Before(max_value, date_value)

\* _parse_expires: the codes it appends, in order, and the exception that
\* leaves it ("" when it returns).  now.replace(year=now.year + 1) raises
\* ValueError on 29 February, after the pattern matched and before any
\* comparison.

parse_expires(value, t) ==
    LET parsed == DateutilParse(value)
        date_value == parsed.dt
        max_value == ReplaceYear(t, t.y + 1)
    IN  IF ~parsed.ok
        THEN [errs |-> <<"invalid_expiry">>, recs |-> <<>>, exc |-> ""]
        ELSE IF ~Iso8601Match(value)
        THEN [errs |-> <<"invalid_expiry">>, recs |-> <<>>, exc |-> ""]
        ELSE IF ReplaceYearRaises(t, t.y + 1)
        THEN [errs |-> <<>>, recs |-> <<>>, exc |-> "ValueError:replace"]
        ELSE IF IsTooLong(date_value, max_value)
        THEN [errs |-> <<>>, recs |-> <<"long_expiry">>, exc |-> ""]
        ELSE IF IsExpired(date_value, t)
        THEN [errs |-> <<"expired">>, recs |-> <<>>, exc |-> ""]
        ELSE [errs |-> <<>>, recs |-> <<>>, exc |-> ""]

\* The tags of a Preferred-Languages value and one invalid_lang per bad tag.
LangsOf(value) ==
    LET parts == SplitOn(value, ",")
    IN  [i \in 1..Len(parts) |-> Strip(parts[i])]

RECURSIVE LangErrors(_)
LangErrors(tags) ==
    IF tags = <<>> THEN <<>>
    ELSE If(~tag_is_valid(Head(tags)), "invalid_lang") \o LangErrors(Tail(tags))

\* What a line gives: its LineDict (type, field_name, value), the codes it
\* appends to each list, the envelope flags after it, whether and what it
\* appends to _values, _langs after it, and the exception that ends it.
\* A field_name of None is the empty sequence (no field has an empty name).
Result(type, field_name, value, errs) ==
    [type |-> type, field_name |-> field_name, value |-> value,
     errs |-> errs, recs |-> <<>>, notes |-> <<>>,
     signed |-> signed, reading_sig |-> reading_sig,
     finished_sig |-> finished_sig,
     record |-> FALSE, langs |-> langs, exc |-> ""]

\* Faulty variant: the hash header taken for one in an unsigned text too.
IsHashHeaderUnsigned(key) == key = <<"hash">>

\* key == "hash" and self._signed
IsHashHeader(key) == key = <<"hash">> /\ signed

UnknownField(key) == recommend_unknown_fields /\ key \notin known_fields

\* Faulty variant: an empty value let through.
EmptyValueNever(value) == FALSE

\* not value
EmptyValue(value) == value = <<>>

parse_field(line) ==
    LET i == Find(line, ":")
        key0 == Lower(SubSeq(line, 1, i - 1))
        value0 == Drop(line, i)
        key == RStrip(key0)
        value == LStrip(value0)
        e1 == If(RStrip(key0) # key0, "prec_ws")
              \o If(value0 # <<>> /\ value0[1] # SP, "no_space")
        uri == key \in uri_fields
        exp == IF ~uri /\ key = <<"expires">>
               THEN parse_expires(value, now)
               ELSE [errs |-> <<>>, recs |-> <<>>, exc |-> ""]
        lng == ~uri /\ key # <<"expires">> /\ key = PREFERRED_LANGUAGES
        e2 == IF uri
              THEN IF UrlScheme(value) = "" THEN <<"no_uri">>
                   ELSE If(UrlScheme(value) = "http", "no_https")
              ELSE IF lng THEN LangErrors(LangsOf(value))
              ELSE exp.errs
    IN  IF IsHashHeader(key)
        THEN Result("pgp_envelope", <<>>, line, e1)
        ELSE IF key = <<>>
        THEN Result("error", <<>>, line, e1 \o <<"empty_key">>)
        ELSE IF EmptyValue(value)
        THEN Result("error", <<>>, line, e1 \o <<"empty_value">>)
        ELSE IF uri /\ UrlSplitRaises(value)
        THEN [Result("error", <<>>, line, e1) EXCEPT !.exc = "ValueError:urlsplit"]
        ELSE IF exp.exc # ""
        THEN [Result("error", <<>>, line, e1) EXCEPT !.exc = exp.exc]
        ELSE [Result("field", key, value, e1 \o e2) EXCEPT
                !.recs = exp.recs,
                !.notes = If(UnknownField(key), "unknown_field"),
                !.langs = IF lng THEN LangsOf(value) ELSE langs,
                !.record = TRUE]

\* pgpy.PGPMessage.from_blob(content): it returns, or raises ValueError or
\* PGPError; which one is a property of the whole text.
PgpErrors ==
    CASE pgp_blob = "ValueError" -> <<"pgp_data_error">>
      [] pgp_blob = "PGPError" -> <<"pgp_error">>
      [] OTHER -> <<>>

\* Faulty variant: the signature block opened in an unsigned text too.
SignatureBeginsUnsigned(line) == line = <<BEGIN_SIGNATURE>>

\* line == "-----BEGIN PGP SIGNATURE-----" and self._signed
SignatureBegins(line) == line = <<BEGIN_SIGNATURE>> /\ signed

\* Faulty variant: only the first header of a text is checked.
NotFirstLineUnlessSigned(n) == n # 1 /\ ~signed

\* self._line_no != 1
NotFirstLine(n) == n # 1

\* Faulty variant: the signature block ended by an empty line too.
SignatureEndsAtBlank(line) == line = <<END_SIGNATURE>> \/ line = <<>>

\* line == "-----END PGP SIGNATURE-----"
SignatureEnds(line) == line = <<END_SIGNATURE>>

\* Faulty variant: an empty line after the signature taken for data too.
DataAfterSigAnyLine(line) == finished_sig

\* line and self._finished_sig
DataAfterSig(line) == line # <<>> /\ finished_sig

\* Faulty variant: the dash escape removed in an unsigned text too.
UnescapedAlways(line) ==
    IF StartsWith(line, <<"-", SP>>) THEN Drop(line, 2) ELSE line

\* The dash escape of signed content.
Unescaped(line) ==
    IF signed /\ ~reading_sig /\ StartsWith(line, <<"-", SP>>)
    THEN Drop(line, 2)
    ELSE line

parse_line(raw) ==
    LET stripped == RStrip(raw)
        line == Unescaped(stripped)
    IN  IF reading_sig
        THEN [Result("pgp_envelope", <<>>, stripped, <<>>) EXCEPT
                !.reading_sig = IF SignatureEnds(stripped)
                                THEN FALSE ELSE reading_sig,
                !.finished_sig = IF SignatureEnds(stripped)
                                 THEN TRUE ELSE finished_sig]
        ELSE IF DataAfterSig(stripped)
        THEN Result("error", <<>>, stripped, <<"data_after_sig">>)
        ELSE IF line = <<BEGIN_SIGNED>>
        THEN [Result("pgp_envelope", <<>>, line,
                     If(NotFirstLine(line_no), "signed_format_issue")
                     \o PgpErrors)
                EXCEPT !.signed = TRUE]
        ELSE IF SignatureBegins(line)
        THEN [Result("pgp_envelope", <<>>, line, <<>>) EXCEPT
                !.reading_sig = TRUE]
        ELSE IF line # <<>> /\ line[1] = "#"
        THEN Result("comment", <<>>, line, <<>>)
        ELSE IF Contains(line, ":")
        THEN parse_field(line)
        ELSE IF line # <<>>
        THEN Result("error", <<>>, line, <<"invalid_line">>)
        ELSE Result("empty", <<>>, <<>>, <<>>)

InValues(key) == key \in DOMAIN values

ValuesGet(key) == IF InValues(key) THEN values[key] ELSE <<>>

InList(x, list) == \E i \in 1..Len(list) : list[i] = x

\* Faulty variant: the count off by one.
ExpireCheckMoreThanTwo ==
    IF ~InValues(<<"expires">>) THEN <<"no_expire">>
    ELSE If(Len(values[<<"expires">>]) > 2, "multi_expire")

\* Faulty variant: no_expire only for a text without any field.
ExpireCheckByLines ==
    IF ~(\E i \in 1..Len(line_info) : line_info[i].type = "field")
    THEN <<"no_expire">>
    ELSE If(Len(ValuesGet(<<"expires">>)) > 1, "multi_expire")

\* The parts of validate_contents, in its order: the codes each appends.
ExpireCheck ==
    IF ~InValues(<<"expires">>) THEN <<"no_expire">>
    ELSE If(Len(values[<<"expires">>]) > 1, "multi_expire")

\* Faulty variant: only the first of the URLs compared.
CanonicalCheckFirstOnly ==
    If(/\ Truthy(urls) /\ InValues(<<"canonical">>)
       /\ ~InList(urls.l[1], values[<<"canonical">>]),
       "no_canonical_match")

CanonicalCheck ==
    If(/\ Truthy(urls) /\ InValues(<<"canonical">>)
       /\ \A i \in 1..Len(urls.l) : ~InList(urls.l[i], values[<<"canonical">>]),
       "no_canonical_match")

LastLineCheck == line_info[Len(line_info)].type # "empty"

CsafErrors ==
    If(/\ InValues(<<"csaf">>)
       /\ ~(\A i \in 1..Len(values[<<"csaf">>]) :
               EndsWithProviderMetadata(values[<<"csaf">>][i])),
       "no_csaf_file")

CsafRecs ==
    If(InValues(<<"csaf">>) /\ Len(values[<<"csaf">>]) > 1,
       "multiple_csaf_fields")

ContactErrors == If(~InValues(<<"contact">>), "no_contact")

\* Faulty variant: the Encryption recommendation left out.
EncryptionRecsNever == <<>>

EncryptionRecs ==
    If(/\ InValues(<<"contact">>)
       /\ \E i \in 1..Len(values[<<"contact">>]) :
             StartsWith(values[<<"contact">>][i], <<"mailto", ":">>)
       /\ ~InValues(<<"encryption">>),
       "no_encryption")

LangCheck ==
    If(InValues(PREFERRED_LANGUAGES) /\ Len(values[PREFERRED_LANGUAGES]) > 1,
       "multi_lang")

SignedRecs ==
    If(~signed, "not_signed")
    \o If(signed /\ ValuesGet(<<"canonical">>) = <<>>, "no_canonical")

\* validate_contents, run with _line_no = None: what it appends to _errors and
\* to _recommendations.
validate_contents ==
    [errs |-> Diags(ExpireCheck \o CanonicalCheck, ErrorLine(None, None))
              \o Diags(If(LastLineCheck, "no_line_separators"),
                       ErrorLine(Len(line_info), None))
              \o Diags(CsafErrors \o ContactErrors \o LangCheck,
                       ErrorLine(None, None)),
     recs |-> Diags(CsafRecs \o EncryptionRecs \o SignedRecs, None)]

\* Faulty variant: recommendations counted against validity.
is_valid_strict == errors = <<>> /\ recommendations = <<>>

is_valid == errors = <<>>

(***************************************************************************)
(* The documents and arguments of the model                                *)
(***************************************************************************)
MaxExpLines == 3
MaxEnvLines == 4
MaxFieldLines == 2
MaxMiscLines == 2
MaxOkLines == 4
MaxHashLines == 3
MaxBlockLines == 3

RECURSIVE Join(_)
Join(ls) ==
    IF Len(ls) = 1 THEN ls[1] ELSE ls[1] \o <<LF>> \o Join(Tail(ls))

\* The texts of 1..n lines drawn from cat.
Docs(cat, n) == {Join(ls) : ls \in UNION {[1..k -> cat] : k \in 1..n}}

\* The texts that open with the header of a signed message and go on with
\* 1..n lines drawn from cat.
SignedDocs(cat, n) == {<<BEGIN_SIGNED, LF>> \o d : d \in Docs(cat, n)}

Expires(day) == <<"Expires", ":", SP, day, ":", "00", ":", "00Z">>

ContactMailto == <<"Contact", ":", SP, "mailto", ":", "security@example.com">>

CanonicalA == <<"Canonical", ":", SP, "https", ":", "//example.com/a">>

CanonicalB == <<"Canonical", ":", SP, "https", ":", "//example.com/b">>

ExpCatalogue ==
    {<<>>, ContactMailto,
     Expires("2024-02-28T00"), Expires("2024-02-29T00"),
     Expires("2025-02-28T00"), Expires("2025-02-29T00"),
     Expires("2025-04-04T00"),
     <<"EXPIRES", ":", SP, "2025-02-28T00", ":", "00", ":", "00Z">>,
     <<"Expires", ":", SP, "2025-01-01">>,
     <<"Expires", ":">>}

EnvCatalogue ==
    {<<>>, <<BEGIN_SIGNED>>, <<BEGIN_SIGNATURE>>, <<END_SIGNATURE>>,
     <<"-", SP, BEGIN_SIGNED>>, <<"-", SP>> \o CanonicalA, <<"-", SP>>,
     Expires("2025-02-28T00")}

FieldCatalogue ==
    {<<>>, <<"\t">>, <<BEGIN_SIGNED, "\r">>, <<"garbage">>,
     <<"#", SP, "comment">>,
     <<"Contact", ":", "https", ":", "//example.com/contact">>,
     <<"Contact", ":", "\t", "mailto", ":", "security@example.com", "\r">>,
     <<"Contact", SP, ":", SP, "http", ":", "//example.com/contact">>,
     <<"Contact", ":", SP, "https", ":", "//[bad">>,
     <<"Contact", ":", SP, "example.com">>,
     <<":", "x">>, <<"Hash", ":", "SHA512">>, <<"Foo", ":", "bar">>,
     <<"Contact", ":", SP, "\r">>, <<"Expires", ":", SP, "soon">>}

MiscCatalogue ==
    {<<>>, <<BEGIN_SIGNED>>, ContactMailto, CanonicalA, CanonicalB,
     <<"Encryption", ":", SP, "https", ":", "//example.com/key">>,
     <<"CSAF", ":", SP, "https", ":", "//example.com/provider-metadata.json">>,
     <<"CSAF", ":", SP, "https", ":", "//example.com/csaf.json">>,
     <<"Preferred-Languages", ":", SP, "en", ",", SP, "nl">>,
     <<"Preferred-Languages", ":", SP, "en", ",", "xx", ",", "yy">>}

OkCatalogue ==
    {<<>>, ContactMailto, Expires("2025-02-28T00"), <<"Foo", ":", SP, "bar">>,
     <<"Encryption", ":", SP, "https", ":", "//example.com/key">>}

HashCatalogue ==
    {<<>>, <<"Hash", ":", SP, "SHA512">>, <<"Hash", ":", "SHA512">>,
     <<"Hash", SP, ":", SP, "SHA512">>, <<"Hash", ":">>,
     <<"-", SP, "Hash", ":", SP, "SHA512">>,
     <<"-", SP, "-", SP, "Foo", ":", SP, "bar">>}

\* The texts that open with the header of a signed message and the first
\* line of its signature block and go on with 1..n lines drawn from cat.
BlockDocs(cat, n) ==
    {<<BEGIN_SIGNED, LF, BEGIN_SIGNATURE, LF>> \o d : d \in Docs(cat, n)}

BlockCatalogue ==
    {<<>>, <<"\t">>, <<END_SIGNATURE, "\r">>, <<BEGIN_SIGNATURE>>,
     <<"#", SP, "comment">>, ContactMailto, <<"-", SP>> \o ContactMailto}

UrlA == <<"https", ":", "//example.com/a">>

UrlB == <<"https", ":", "//example.com/b">>

UrlC == <<"https", ":", "//example.com/c">>

Nows ==
    {[y |-> 2024, m |-> 2, d |-> 28], [y |-> 2024, m |-> 2, d |-> 29],
     [y |-> 2024, m |-> 3, d |-> 1]}

PgpOutcomes == {"ok", "ValueError", "PGPError"}

\* The runs checked, family by family: texts, clocks, what from_blob makes of
\* a text that is handed to it, urls arguments and the unknown-field switch.
Families ==
    {[docs |-> Docs(ExpCatalogue, MaxExpLines), nows |-> Nows,
      pgps |-> {"ok"}, args |-> {NoneArg}, ruf |-> {TRUE}],
     [docs |-> Docs(EnvCatalogue, MaxEnvLines),
      nows |-> {[y |-> 2024, m |-> 3, d |-> 1]},
      pgps |-> {"ok"}, args |-> {NoneArg}, ruf |-> {TRUE}],
     [docs |-> Docs(FieldCatalogue, MaxFieldLines),
      nows |-> {[y |-> 2024, m |-> 3, d |-> 1]},
      pgps |-> PgpOutcomes, args |-> {NoneArg}, ruf |-> BOOLEAN],
     [docs |-> Docs(MiscCatalogue, MaxMiscLines),
      nows |-> {[y |-> 2024, m |-> 3, d |-> 1]},
      pgps |-> {"ok", "PGPError"},
      args |-> {NoneArg, StrArg(UrlA), ListArg(<<>>), ListArg(<<UrlC, UrlB>>),
                ListArg(<<UrlA, UrlC>>)},
      ruf |-> {TRUE}],
     [docs |-> Docs(OkCatalogue, MaxOkLines),
      nows |-> {[y |-> 2024, m |-> 2, d |-> 28]},
      pgps |-> {"ok"}, args |-> {NoneArg}, ruf |-> BOOLEAN],
     [docs |-> SignedDocs(HashCatalogue, MaxHashLines),
      nows |-> {[y |-> 2024, m |-> 3, d |-> 1]},
      pgps |-> {"ok"}, args |-> {NoneArg}, ruf |-> {TRUE}],
     [docs |-> BlockDocs(BlockCatalogue, MaxBlockLines),
      nows |-> {[y |-> 2024, m |-> 3, d |-> 1]},
      pgps |-> {"ok"}, args |-> {NoneArg}, ruf |-> {TRUE}]}

(***************************************************************************)
(* The run: Parser.__init__, then _process line by line, then              *)
(* validate_contents.  pc is the position in _process; a run that an       *)
(* exception leaves ends at "raised", with the exception in exc and every  *)
(* field as it was when the exception was raised.                          *)
(***************************************************************************)
Init ==
    /\ \E f \in Families, arg \in UNION {g.args : g \in Families} :
          /\ arg \in f.args
          /\ content \in f.docs
          /\ now \in f.nows
          /\ urls = strlist_from_arg(arg)
          /\ recommend_unknown_fields \in f.ruf
          /\ pgp_blob \in IF Contains(content, BEGIN_SIGNED)
                          THEN f.pgps ELSE {"ok"}
    /\ resp_content = <<>>
    /\ net = <<>>
    /\ probe = None
    /\ gets = <<>>
    /\ security_txt_found = FALSE
    /\ path = <<>>
    /\ url = <<>>
    /\ lines = <<>>
    /\ line_no = None
    /\ line_info = <<>>
    /\ errors = <<>>
    /\ recommendations = <<>>
    /\ notifications = <<>>
    /\ values = <<>>
    /\ langs = <<>>
    /\ signed = FALSE
    /\ reading_sig = FALSE
    /\ finished_sig = FALSE
    /\ pc = "process"
    /\ exc = ""

\* _process, up to the loop: split the text, start at line 1.
Split ==
    /\ pc = "process"
    /\ lines' = SplitOn(content, LF)
    /\ line_no' = 1
    /\ pc' = "loop"
    /\ UNCHANGED <<content, urls, recommend_unknown_fields, now, pgp_blob,
                   resp_content, probe_vars, line_info, errors, recommendations, notifications, values,
                   langs, signed, reading_sig, finished_sig, exc>>

\* _values[key].append(value) on the defaultdict.
ValuesAppend(key, value) ==
    [k \in DOMAIN values \cup {key} |->
        IF k = key THEN Append(ValuesGet(key), value) ELSE values[k]]

\* One turn of the loop: _parse_line on the next line, its LineDict appended,
\* _line_no advanced; or the exception it raises.
ParseLine ==
    /\ pc = "loop"
    /\ line_no <= Len(lines)
    /\ LET r == parse_line(lines[line_no])
       IN  /\ errors' = errors \o Diags(r.errs, line_no)
           /\ recommendations' = recommendations \o Diags(r.recs, line_no)
           /\ notifications' = notifications \o Diags(r.notes, line_no)
           /\ signed' = r.signed
           /\ reading_sig' = r.reading_sig
           /\ finished_sig' = r.finished_sig
           /\ IF r.exc # ""
              THEN /\ pc' = "raised"
                   /\ exc' = r.exc
                   /\ UNCHANGED <<line_info, line_no, values, langs>>
              ELSE /\ line_info' = Append(line_info,
                                          [type |-> r.type,
                                           field_name |-> r.field_name,
                                           value |-> r.value])
                   /\ line_no' = line_no + 1
                   /\ values' = IF r.record
                                THEN ValuesAppend(r.field_name, r.value)
                                ELSE values
                   /\ langs' = r.langs
                   /\ UNCHANGED <<pc, exc>>
    /\ UNCHANGED <<content, urls, recommend_unknown_fields, now, pgp_blob,
                   resp_content, probe_vars, lines>>

\* _process, after the loop: _line_no = None, then validate_contents.
Validate ==
    /\ pc = "loop"
    /\ line_no > Len(lines)
    /\ line_no' = None
    /\ errors' = errors \o validate_contents.errs
    /\ recommendations' = recommendations \o validate_contents.recs
    /\ pc' = "done"
    /\ UNCHANGED <<content, urls, recommend_unknown_fields, now, pgp_blob,
                   resp_content, probe_vars, lines, line_info, notifications, values, langs, signed,
                   reading_sig, finished_sig, exc>>

Next == Split \/ ParseLine \/ Validate

Spec == Init /\ [][Next]_vars

(***************************************************************************)
(* SecurityTXT: the four locations are probed in turn; for the first       *)
(* response with status 200 the headers are checked, _get_str makes the    *)
(* body a text, _urls is set, and Parser._process runs on the text.        *)
(***************************************************************************)
\* codecs.BOM_UTF8
BOM_UTF8 == <<"EF", "BB", "BF">>

\* The continuation bytes among the bytes of this model.
Continuation == {"BB", "BF"}

\* U+FFFD, which errors="replace" puts for every ill-formed part.
REPLACEMENT == "U+FFFD"

\* The character of the three bytes EF c1 c2.
Utf8Char(c1, c2) ==
    CASE c1 = "BB" /\ c2 = "BF" -> "U+FEFF"
      [] c1 = "BB" /\ c2 = "BB" -> "U+FEFB"
      [] c1 = "BF" /\ c2 = "BB" -> "U+FFFB"
      [] OTHER -> "U+FFFF"

\* The bytes of this model that are not ASCII.
NonAscii == {"EF", "BB", "BF"}

\* bytes.decode('utf-8', errors="replace") on the bytes 61 (a), 0A (line
\* feed), EF (the first of three bytes), BB and BF (continuation bytes):
\* one replacement character for every maximal ill-formed part.  A run of
\* ASCII bytes is written as the token it encodes and decodes to that token.
RECURSIVE Utf8Decode(_)
Utf8Decode(b) ==
    IF b = <<>> THEN <<>>
    ELSE IF b[1] = "61" THEN <<"a">> \o Utf8Decode(Tail(b))
    ELSE IF b[1] = "0A" THEN <<LF>> \o Utf8Decode(Tail(b))
    ELSE IF b[1] \notin NonAscii THEN <<b[1]>> \o Utf8Decode(Tail(b))
    ELSE IF b[1] = "EF" /\ Len(b) >= 2 /\ b[2] \in Continuation
    THEN IF Len(b) >= 3 /\ b[3] \in Continuation
         THEN <<Utf8Char(b[2], b[3])>> \o Utf8Decode(Drop(b, 3))
         ELSE <<REPLACEMENT>> \o Utf8Decode(Drop(b, 2))
    ELSE <<REPLACEMENT>> \o Utf8Decode(Tail(b))

\* bytes.decode('utf-8') returns: no part of the bytes is ill-formed.
Utf8Valid(b) == ~Contains(Utf8Decode(b), REPLACEMENT)

\* bytes.replace(old, b''): every occurrence removed, from the left.
RECURSIVE RemoveAll(_, _)
RemoveAll(b, old) ==
    IF b = <<>> THEN <<>>
    ELSE IF StartsWith(b, old) THEN RemoveAll(Drop(b, Len(old)), old)
    ELSE <<b[1]>> \o RemoveAll(Tail(b), old)

\* _get_str: the codes it appends, in order, and the text it returns.  The
\* call that adds bom_in_file stands after the if, not in it.
get_str(b) ==
    LET stripped == IF StartsWith(b, BOM_UTF8) THEN RemoveAll(b, BOM_UTF8)
                    ELSE b
    IN  [errs |-> <<"bom_in_file">> \o If(~Utf8Valid(stripped), "utf8"),
         str |-> Utf8Decode(stripped)]

MaxPieces == 5

RECURSIVE Concat(_)
Concat(ps) == IF ps = <<>> THEN <<>> ELSE Head(ps) \o Concat(Tail(ps))

\* The bodies: up to MaxPieces pieces, each the mark or one byte.
ByteCatalogue ==
    {BOM_UTF8, <<"EF">>, <<"BB">>, <<"BF">>, <<"61">>, <<"0A">>}

ByteDocs ==
    {Concat(ps) : ps \in UNION {[1..k -> ByteCatalogue] : k \in 0..MaxPieces}}

\* CORRECT_PATH
CORRECT_PATH == ".well-known/security.txt"

\* Faulty variant: the plain scheme probed first.
SchemesHttpFirst == <<"http", "https">>

\* for scheme in ["https", "http"]
Schemes == <<"https", "http">>

\* for path in [".well-known/security.txt", "security.txt"]
Paths == <<CORRECT_PATH, "security.txt">>

\* The k-th turn of the two nested loops: the scheme and the path it has.
Location(k) ==
    [scheme |-> Schemes[((k - 1) \div Len(Paths)) + 1],
     path |-> Paths[((k - 1) % Len(Paths)) + 1]]

NumLocations == Len(Schemes) * Len(Paths)

\* urlunsplit((scheme, self._netloc, path, None, None)) for the netloc
\* example.com.
urlunsplit(scheme, p) ==
    <<scheme, ":",
      IF p = CORRECT_PATH THEN "//example.com/.well-known/security.txt"
      ELSE "//example.com/security.txt">>

LocationUrl(k) == urlunsplit(Location(k).scheme, Location(k).path)

\* resp.url of a response that was redirected.
RedirectUrl == <<"https", ":", "//www.example.com/.well-known/security.txt">>

\* cgi.parse_header: the parts between the semicolons, stripped; the first
\* is the key, and every later part with an "=" gives the parameter of the
\* lower-cased name, a later one replacing an earlier one.
parse_header(line) ==
    LET parts == SplitOn(line, ";")
        Named(n) == {i \in 2..Len(parts) :
                        /\ Contains(parts[i], "=")
                        /\ Lower(Strip(SubSeq(parts[i], 1,
                                              Find(parts[i], "=") - 1))) = n}
        Last(S) == CHOOSE i \in S : \A j \in S : j <= i
        ValueAt(i) == Strip(Drop(parts[i], Find(parts[i], "=")))
    IN  [media_type |-> Strip(parts[1]),
         charset |-> IF Named(<<"charset">>) = {} THEN <<"utf-8">>
                     ELSE ValueAt(Last(Named(<<"charset">>)))]

\* The errors of the header checks on a response with status 200, in order.
header_errors(k, headers) ==
    If(Location(k).scheme # "https", "invalid_uri_scheme")
    \o If(Location(k).path # CORRECT_PATH, "location")
    \o (IF "content-type" \notin DOMAIN headers
        THEN <<"no_content_type">>
        ELSE LET h == parse_header(headers["content-type"])
             IN  If(Lower(h.media_type) # <<"text/plain">>, "invalid_media")
                 \o If(Lower(h.charset) \notin {<<"utf-8">>, <<"csutf8">>},
                       "invalid_charset"))

\* What the servers do when a location is asked: requests.get returns a
\* response (first = "ok") or raises SSLError or another exception; after
\* SSLError the request without verification returns a response or raises.
Got(o) == o.first = "ok" \/ (o.first = "SSLError" /\ o.retry = "ok")

Answered200(o) == Got(o) /\ o.status_code = 200

Answers ==
    {[first |-> "ok", retry |-> "ok", status_code |-> 200],
     [first |-> "ok", retry |-> "ok", status_code |-> 404],
     [first |-> "ConnectionError", retry |-> "ok", status_code |-> 404],
     [first |-> "SSLError", retry |-> "ok", status_code |-> 200],
     [first |-> "SSLError", retry |-> "ok", status_code |-> 404],
     [first |-> "SSLError", retry |-> "Timeout", status_code |-> 404]}

NoHeaders == [h \in {} |-> <<>>]

ContentType(v) == [h \in {"content-type"} |-> v]

\* The headers and the redirection of the responses.
Dressings ==
    {[headers |-> ContentType(<<"text/plain">>), redirected |-> FALSE],
     [headers |-> ContentType(<<"text/plain">>), redirected |-> TRUE],
     [headers |-> NoHeaders, redirected |-> FALSE],
     [headers |-> ContentType(<<"Text/Plain", ";", SP, "Charset", "=",
                                "csUTF8">>),
      redirected |-> FALSE],
     [headers |-> ContentType(<<"text/html", ";", "charset", "=",
                                "iso-8859-1">>),
      redirected |-> FALSE]}

Outcome(a, d, body) ==
    [first |-> a.first, retry |-> a.retry, status_code |-> a.status_code,
     headers |-> d.headers, redirected |-> d.redirected, content |-> body]

\* The bodies the four locations serve when the probes are the subject: a
\* text whose Canonical field names the first location, a text on which the
\* pass raises, a text behind a mark, and two bytes.
LocationBodies ==
    <<ContactMailto \o <<LF>> \o <<"Canonical", ":", SP>> \o LocationUrl(1)
        \o <<LF>>,
      <<"Contact", ":", SP, "https", ":", "//[bad">>,
      BOM_UTF8 \o ContactMailto \o <<LF>>,
      <<"61", "0A">>>>

\* The inputs.  The body b at the first location, answered at once.
BodyNet(b) ==
    [k \in 1..NumLocations |->
        Outcome([first |-> "ok", retry |-> "ok",
                 status_code |-> IF k = 1 THEN 200 ELSE 404],
                [headers |-> ContentType(<<"text/plain">>),
                 redirected |-> FALSE],
                IF k = 1 THEN b ELSE <<>>)]

\* The four locations answering as as[1], ..., as[4], each with its own body.
ProbeNet(as, d) ==
    [k \in 1..NumLocations |-> Outcome(as[k], d, LocationBodies[k])]

\* SecurityTXT.__init__ up to the call of _process: the fields as
\* Parser.__init__ sets them for the content "", and what the servers will
\* answer.
SecurityTXTInit ==
    /\ \/ \E b \in ByteDocs : net = BodyNet(b)
       \/ \E as \in [1..NumLocations -> Answers], d \in Dressings :
             net = ProbeNet(as, d)
    /\ probe = 1
    /\ gets = <<>>
    /\ security_txt_found = FALSE
    /\ path = <<>>
    /\ url = <<>>
    /\ resp_content = <<>>
    /\ content = <<>>
    /\ urls = strlist_from_arg(NoneArg)
    /\ recommend_unknown_fields = TRUE
    /\ now = [y |-> 2024, m |-> 3, d |-> 1]
    /\ pgp_blob = "ok"
    /\ lines = <<>>
    /\ line_no = None
    /\ line_info = <<>>
    /\ errors = <<>>
    /\ recommendations = <<>>
    /\ notifications = <<>>
    /\ values = <<>>
    /\ langs = <<>>
    /\ signed = FALSE
    /\ reading_sig = FALSE
    /\ finished_sig = FALSE
    /\ pc = "probe"
    /\ exc = ""

\* One turn of the loops: requests.get on the location, once more without
\* verification after SSLError (invalid_cert unless it is there already);
\* continue when no response came or its status is not 200; the header
\* checks on a response with status 200.
Probe ==
    /\ pc = "probe"
    /\ probe <= NumLocations
    /\ LET o == net[probe]
           u == LocationUrl(probe)
       IN  /\ gets' = gets \o <<[url |-> u, verify |-> TRUE]>>
                      \o (IF o.first = "SSLError"
                          THEN <<[url |-> u, verify |-> FALSE]>> ELSE <<>>)
           /\ errors' =
                 errors
                 \o Diags(If(o.first = "SSLError"
                             /\ ~HasCode(errors, "invalid_cert"),
                             "invalid_cert")
                          \o (IF Answered200(o)
                              THEN header_errors(probe, o.headers)
                              ELSE <<>>),
                          ErrorLine(None, line_no))
           /\ IF Answered200(o)
              THEN /\ path' = <<Location(probe).path>>
                   /\ url' = u
                   /\ resp_content' = o.content
                   /\ pc' = "get_str"
                   /\ UNCHANGED probe
              ELSE /\ probe' = probe + 1
                   /\ UNCHANGED <<path, url, resp_content, pc>>
    /\ UNCHANGED <<content, urls, recommend_unknown_fields, now, pgp_blob,
                   net, security_txt_found, lines, line_no, line_info,
                   recommendations, notifications, values, langs, signed,
                   reading_sig, finished_sig, exc>>

\* self._content = self._get_str(resp.content); self._urls from the
\* history of the response; then super()._process().
GetStr ==
    /\ pc = "get_str"
    /\ errors' = errors \o Diags(get_str(resp_content).errs,
                                 ErrorLine(None, line_no))
    /\ content' = get_str(resp_content).str
    /\ urls' = IF net[probe].redirected
               THEN ListArg(<<url, RedirectUrl>>)
               ELSE ListArg(<<url>>)
    /\ pc' = "process"
    /\ UNCHANGED <<recommend_unknown_fields, now, pgp_blob, resp_content,
                   probe_vars, lines, line_no, line_info, recommendations,
                   notifications, values, langs, signed, reading_sig,
                   finished_sig, exc>>

\* super()._process() returned: security_txt_found = True and the two
\* breaks, which leave the loops with nothing more to do.
Found ==
    /\ pc = "done"
    /\ security_txt_found' = TRUE
    /\ pc' = "end"
    /\ UNCHANGED <<content, urls, recommend_unknown_fields, now, pgp_blob,
                   resp_content, net, probe, gets, path, url, lines, line_no,
                   line_info, errors, recommendations, notifications, values,
                   langs, signed, reading_sig, finished_sig, exc>>

\* The loops ran out: no_security_txt.
NotFound ==
    /\ pc = "probe"
    /\ probe > NumLocations
    /\ ~security_txt_found
    /\ errors' = errors \o Diags(<<"no_security_txt">>,
                                 ErrorLine(None, line_no))
    /\ pc' = "end"
    /\ UNCHANGED <<content, urls, recommend_unknown_fields, now, pgp_blob,
                   resp_content, probe_vars, lines, line_no, line_info,
                   recommendations, notifications, values, langs, signed,
                   reading_sig, finished_sig, exc>>

SecurityTXTNext ==
    Probe \/ GetStr \/ Split \/ ParseLine \/ Validate \/ Found \/ NotFound

SecurityTXTSpec == SecurityTXTInit /\ [][SecurityTXTNext]_vars

(***************************************************************************)
(* Vocabulary of the properties, read off the input text and the results   *)
(***************************************************************************)
Returned == pc = "done"

Ended == pc \in {"done", "raised"}

\* The positions of the line terminators of the text, and its i-th line.
Terminators == {p \in 1..Len(content) : content[p] = LF}

NumLines == Cardinality(Terminators) + 1

Terminator(k) ==
    CHOOSE p \in Terminators : Cardinality({q \in Terminators : q < p}) = k - 1

NthLine(i) ==
    SubSeq(content,
           IF i = 1 THEN 1 ELSE Terminator(i - 1) + 1,
           IF i = NumLines THEN Len(content) ELSE Terminator(i) - 1)

IsSuffix(s, t) == Len(s) <= Len(t) /\ SubSeq(t, Len(t) - Len(s) + 1, Len(t)) = s

\* Whether a BEGIN PGP SIGNED MESSAGE line, respectively a BEGIN PGP SIGNATURE
\* line, was accepted as an envelope line before line i.
SignedBefore(i) ==
    \E j \in 1..(i - 1) :
        line_info[j].type = "pgp_envelope" /\ line_info[j].value = <<BEGIN_SIGNED>>

BlockBefore(i) ==
    \E j \in 1..(i - 1) :
        /\ line_info[j].type = "pgp_envelope"
        /\ line_info[j].value = <<BEGIN_SIGNATURE>>

\* Line i as the classifier reads it outside the signature block: trailing
\* white space removed and, in a signed text, the dash escape removed.
Body(i) ==
    LET l == RStrip(NthLine(i))
    IN  IF SignedBefore(i) /\ StartsWith(l, <<"-", SP>>) THEN Drop(l, 2) ELSE l

\* Line i goes to the field extractor: not in or after the signature block,
\* it holds a colon (which no armor line does) and it is no comment.
FieldLine(i) ==
    LET b == Body(i)
    IN  /\ Contains(b, ":")
        /\ b[1] # "#"
        /\ ~BlockBefore(i)

NameOf(i) ==
    LET b == Body(i) IN RStrip(Lower(SubSeq(b, 1, Find(b, ":") - 1)))

AfterColon(i) == LET b == Body(i) IN Drop(b, Find(b, ":"))

\* The name of line i as written, lower-cased, with the white space before
\* the colon.
RawNameOf(i) == LET b == Body(i) IN Lower(SubSeq(b, 1, Find(b, ":") - 1))

\* The codes a list holds for line i, in order, as the line pass gave them:
\* the cross-field pass numbers one diagnostic, no_line_separators.
AllCodesAt(list, i) ==
    Codes(SelectSeq(list,
                    LAMBDA d : d.line = i /\ d.code # "no_line_separators"))

\* The field records under a name.
FieldRecords(name) ==
    {i \in 1..Len(line_info) :
        line_info[i].type = "field" /\ line_info[i].field_name = name}

\* Days since 1 January 2024, for the dates of 2024 and 2025.
RECURSIVE DaysBeforeMonth(_, _)
DaysBeforeMonth(y, m) ==
    IF m = 1 THEN 0 ELSE DaysBeforeMonth(y, m - 1) + DaysInMonth(y, m - 1)

Ordinal(dt) ==
    (IF dt.y = 2025 THEN 366 ELSE 0) + DaysBeforeMonth(dt.y, dt.m) + dt.d

\* t lies after the same month and day of the year after t0.
LaterThanAYear(t, t0) == Before([t0 EXCEPT !.y = t0.y + 1], t)

\* A value in the strict pattern that names a day of the calendar.
StrictIso(v) == Iso8601Match(v) /\ ValidDate(DayOf[v[1]])

(***************************************************************************)
(* C1.  Every run gives one LineRecord per input line, in input order: a   *)
(* text with k terminators gives k + 1 records, the i-th record is made of *)
(* the i-th line, and no line stops the pass before the last line.         *)
(* The code does not do this: urlsplit raises ValueError on a URI value    *)
(* with an unbalanced square bracket, and now.replace raises ValueError on *)
(* 29 February; neither is caught, and the pass ends at that line.         *)
(***************************************************************************)
C1_OneRecordPerLine ==
    Ended =>
        /\ Len(line_info) = NumLines
        /\ \A i \in 1..Len(line_info) :
              /\ IsSuffix(line_info[i].value, RStrip(NthLine(i)))
              /\ (line_info[i].type = "empty" => RStrip(NthLine(i)) = <<>>)

\* C1, for the runs that return: what then holds of the records.
C1_OneRecordPerLineWhenReturned ==
    Returned =>
        /\ Len(line_info) = NumLines
        /\ \A i \in 1..Len(line_info) :
              /\ IsSuffix(line_info[i].value, RStrip(NthLine(i)))
              /\ (line_info[i].type = "empty" => RStrip(NthLine(i)) = <<>>)

(***************************************************************************)
(* C2.  The minimal unsigned document: a Contact line with a mailto URI,   *)
(* an Expires line with a strict ISO 8601 value after now and not later    *)
(* than a year after now, and a final line feed.                           *)
(***************************************************************************)
MinimalDocument ==
    \E day \in DOMAIN DayOf :
        /\ ValidDate(DayOf[day])
        /\ Before(now, DayOf[day])
        /\ ~LaterThanAYear(DayOf[day], now)
        /\ content = Join(<<ContactMailto, Expires(day), <<>>>>)

\* C2 as claimed: the run returns no error and the single recommendation
\* not_signed.
C2_OnlyNotSigned ==
    (Returned /\ MinimalDocument) =>
        errors = <<>> /\ Codes(recommendations) = <<"not_signed">>

\* C2 as amended: the run returns no error and exactly the recommendations
\* no_encryption (a mailto contact without an Encryption field) and
\* not_signed.
C2_NoEncryptionAndNotSigned ==
    (Returned /\ MinimalDocument) =>
        /\ errors = <<>>
        /\ Codes(recommendations) = <<"no_encryption", "not_signed">>

C2_Witness == Returned /\ MinimalDocument /\ is_valid

(***************************************************************************)
(* C3.  A document without an Expires field line (escaped or not) ends     *)
(* with no_expire among its errors, signed or not, whatever else it holds. *)
(***************************************************************************)
IsExpiresLine(raw) ==
    LET l == RStrip(raw)
        name(b) == RStrip(Lower(SubSeq(b, 1, Find(b, ":") - 1)))
    IN  /\ Contains(l, ":")
        /\ \/ name(l) = <<"expires">>
           \/ StartsWith(l, <<"-", SP>>) /\ name(Drop(l, 2)) = <<"expires">>

NoExpiresLine == \A i \in 1..NumLines : ~IsExpiresLine(NthLine(i))

C3_NoExpire ==
    (Returned /\ NoExpiresLine) => HasAt(errors, "no_expire", None)

C3_Witness ==
    /\ Returned /\ NoExpiresLine /\ signed
    /\ InValues(<<"canonical">>)
    /\ HasAt(errors, "no_expire", None)

(***************************************************************************)
(* C4.  Two Expires lines.                                                 *)
(***************************************************************************)
\* The date diagnostics an Expires value gets when it is the only one.
DateErrors(v) ==
    IF ~StrictIso(v) THEN <<"invalid_expiry">>
    ELSE If(Before(DayOf[v[1]], now), "expired")

DateRecs(v) == If(StrictIso(v) /\ LaterThanAYear(DayOf[v[1]], now), "long_expiry")

DateCodes == {"invalid_expiry", "expired", "long_expiry"}

\* The codes among cs that list holds for line i, in order.
CodesAt(list, i, cs) ==
    LET F[k \in 0..Len(list)] ==
            IF k = 0 THEN <<>>
            ELSE IF list[k].line = i /\ list[k].code \in cs
            THEN Append(F[k - 1], list[k].code)
            ELSE F[k - 1]
    IN  F[Len(list)]

Count(list, code) == Cardinality({k \in 1..Len(list) : list[k].code = code})

ExpiresLines == {i \in 1..NumLines : IsExpiresLine(NthLine(i))}

ExpiresRecords ==
    {i \in 1..Len(line_info) :
        line_info[i].type = "field" /\ line_info[i].field_name = <<"expires">>}

\* C4 as claimed: a text with two lines whose field name is Expires ends with
\* multi_expire among its errors.
C4_TwoExpiresLines ==
    (Returned /\ Cardinality(ExpiresLines) >= 2) =>
        HasAt(errors, "multi_expire", None)

\* C4 as amended: when two lines were recorded as Expires fields (the value
\* not empty, the line not in or after the signature block), the errors hold
\* multi_expire once, and each recorded line has the date diagnostics its
\* value gets alone.
C4_TwoExpiresFields ==
    Returned =>
        /\ Cardinality(ExpiresRecords) >= 2 =>
              /\ HasAt(errors, "multi_expire", None)
              /\ Count(errors, "multi_expire") = 1
        /\ \A i \in ExpiresRecords :
              /\ IsExpiresLine(NthLine(i))
              /\ CodesAt(errors, i, DateCodes) = DateErrors(line_info[i].value)
              /\ CodesAt(recommendations, i, DateCodes)
                    = DateRecs(line_info[i].value)

C4_Witness ==
    /\ Returned
    /\ Cardinality(ExpiresRecords) >= 2
    /\ HasCode(errors, "expired")
    /\ HasCode(recommendations, "long_expiry")

(***************************************************************************)
(* C5.  The BEGIN PGP SIGNED MESSAGE line after line 1.                    *)
(***************************************************************************)
\* C5 as claimed: wherever the line stands after line 1, the errors hold
\* signed_format_issue.
C5_MarkerAnywhere ==
    Returned =>
        \A i \in 2..NumLines :
            RStrip(NthLine(i)) = <<BEGIN_SIGNED>>
                => HasCode(errors, "signed_format_issue")

\* C5 as amended: when the line stands after line 1 and not in or after the
\* signature block, the errors hold signed_format_issue for that line.
C5_MarkerOutsideSignature ==
    Returned =>
        \A i \in 2..NumLines :
            (RStrip(NthLine(i)) = <<BEGIN_SIGNED>> /\ ~BlockBefore(i))
                => HasAt(errors, "signed_format_issue", i)

C5_Witness ==
    /\ Returned
    /\ \E i \in 3..NumLines :
          /\ RStrip(NthLine(i)) = <<BEGIN_SIGNED>>
          /\ ~BlockBefore(i)
          /\ SignedBefore(i)
          /\ HasAt(errors, "signed_format_issue", i)

(***************************************************************************)
(* C6.  A field line whose colon is followed by something else than a      *)
(* space.                                                                  *)
(***************************************************************************)
NoSpaceLine(i) ==
    FieldLine(i) /\ AfterColon(i) # <<>> /\ AfterColon(i)[1] # SP

Recorded(i) ==
    /\ line_info[i].type = "field"
    /\ line_info[i].field_name = NameOf(i)
    /\ line_info[i].value = LStrip(AfterColon(i))
    /\ InValues(NameOf(i))
    /\ InList(LStrip(AfterColon(i)), values[NameOf(i)])

\* C6 as claimed: every such line has no_space and is recorded as a field.
C6_NoSpaceRecorded ==
    Returned =>
        \A i \in 1..NumLines :
            NoSpaceLine(i) => HasAt(errors, "no_space", i) /\ Recorded(i)

\* C6 as amended: every such line has no_space; it is recorded as a field when
\* its name is not empty and it is not the hash header of a signed text.
C6_NoSpaceRecordedIfNamed ==
    Returned =>
        \A i \in 1..NumLines :
            NoSpaceLine(i) =>
                /\ HasAt(errors, "no_space", i)
                /\ (NameOf(i) # <<>> /\ ~(NameOf(i) = <<"hash">> /\ SignedBefore(i)))
                      => Recorded(i)

C6_Witness ==
    /\ Returned
    /\ \E i \in 1..NumLines :
          /\ NoSpaceLine(i)
          /\ NameOf(i) = <<"contact">>
          /\ Recorded(i)
          /\ HasAt(errors, "no_space", i)
          /\ LStrip(AfterColon(i)) # AfterColon(i)

(***************************************************************************)
(* C7.  A document whose only problem is an Expires value one day before   *)
(* now: exactly one error, expired, and is_valid() is false.               *)
(***************************************************************************)
ExpiredYesterdayDocument ==
    \E day \in DOMAIN DayOf :
        /\ ValidDate(DayOf[day])
        /\ Ordinal(now) - Ordinal(DayOf[day]) = 1
        /\ \/ content = Join(<<ContactMailto, Expires(day), <<>>>>)
           \/ content = Join(<<Expires(day), ContactMailto, <<>>>>)

C7_ExpiredOnly ==
    (Returned /\ ExpiredYesterdayDocument) =>
        Codes(errors) = <<"expired">> /\ ~is_valid

C7_Witness ==
    Returned /\ ExpiredYesterdayDocument /\ HasAt(errors, "expired", 2)

(***************************************************************************)
(* C8.  For an Expires value t in the strict pattern: long_expiry exactly  *)
(* when t is later than a year after now, expired exactly when t is before *)
(* now, never both, and a value 400 days ahead gets long_expiry and no     *)
(* expired or invalid_expiry.  The occurrences are the recorded Expires    *)
(* fields and the Expires line at which the run was left.                  *)
(* The code does not do this on 29 February: now.replace(year=now.year+1)  *)
(* raises ValueError before any diagnostic is made.                        *)
(***************************************************************************)
ExpiresOccurrences ==
    {i \in 1..NumLines :
        /\ \/ i \in ExpiresRecords
           \/ /\ pc = "raised" /\ i = line_no
              /\ FieldLine(i) /\ NameOf(i) = <<"expires">>
        /\ StrictIso(LStrip(AfterColon(i)))}

ExpiryWindow(i) ==
    LET t == DayOf[LStrip(AfterColon(i))[1]]
    IN  /\ HasAt(recommendations, "long_expiry", i) <=> LaterThanAYear(t, now)
        /\ HasAt(errors, "expired", i) <=> Before(t, now)
        /\ ~(HasAt(recommendations, "long_expiry", i) /\ HasAt(errors, "expired", i))
        /\ Ordinal(t) - Ordinal(now) = 400 =>
              /\ HasAt(recommendations, "long_expiry", i)
              /\ CodesAt(errors, i, DateCodes) = <<>>

C8_ExpiryWindow == Ended => \A i \in ExpiresOccurrences : ExpiryWindow(i)

\* C8, for the runs that return: what then holds of every recorded value.
C8_ExpiryWindowWhenReturned ==
    Returned => \A i \in ExpiresOccurrences : ExpiryWindow(i)

(***************************************************************************)
(* C9.  After a run is_valid() is true exactly when there is no error, and *)
(* no recommendation or notification code is ever among the errors, so a   *)
(* run with recommendations and notifications only is valid.               *)
(***************************************************************************)
AdviceCodes ==
    {"long_expiry", "multiple_csaf_fields", "no_encryption", "not_signed",
     "no_canonical", "unknown_field"}

C9_ValidIffNoErrors ==
    Returned =>
        /\ is_valid <=> Len(errors) = 0
        /\ \A k \in 1..Len(errors) : errors[k].code \notin AdviceCodes
        /\ \A k \in 1..Len(recommendations) :
              recommendations[k].code \in AdviceCodes
        /\ \A k \in 1..Len(notifications) :
              notifications[k].code = "unknown_field"

C9_Witness ==
    /\ Returned /\ is_valid
    /\ HasCode(recommendations, "not_signed")
    /\ HasCode(notifications, "unknown_field")

(***************************************************************************)
(* C10.  The envelope flags are always one of unsigned, signed-cleartext,  *)
(* in-signature, signature-done, and a step leaves them as they are or     *)
(* moves them one state forward; nothing leaves signature-done.            *)
(***************************************************************************)
EnvState ==
    CASE ~signed /\ ~reading_sig /\ ~finished_sig -> "unsigned"
      [] signed /\ ~reading_sig /\ ~finished_sig -> "signed-cleartext"
      [] signed /\ reading_sig /\ ~finished_sig -> "in-signature"
      [] signed /\ ~reading_sig /\ finished_sig -> "signature-done"
      [] OTHER -> "none"

Forward ==
    {<<"unsigned", "signed-cleartext">>, <<"signed-cleartext", "in-signature">>,
     <<"in-signature", "signature-done">>}

C10_EnvelopeForward ==
    [][/\ EnvState # "none"
       /\ EnvState' # "none"
       /\ EnvState' = EnvState \/ <<EnvState, EnvState'>> \in Forward]_vars

C10_Witness ==
    /\ Returned
    /\ EnvState = "signature-done"
    /\ HasAt(errors, "data_after_sig", 4)

(***************************************************************************)
(* C11.  The hash header of a signed text: every line of a signed text     *)
(* whose field name is hash is a pgp-envelope line for which the field     *)
(* extractor does nothing, so that the line gets no error, recommendation  *)
(* or notification, whatever its spacing or value, and no value in         *)
(* FieldValues.                                                            *)
(* The code does not do this: the field extractor tests for the hash       *)
(* header after its two spacing checks, so a hash header with white space  *)
(* before the colon gets prec_ws and one whose value does not begin with a *)
(* space gets no_space.                                                    *)
(***************************************************************************)
\* Line i was classified, belongs to a signed text, stands before the
\* signature block and has the field name hash.
HashLine(i) ==
    /\ i <= Len(line_info)
    /\ SignedBefore(i)
    /\ FieldLine(i)
    /\ NameOf(i) = <<"hash">>

C11_HashLineSilent ==
    Ended =>
        \A i \in 1..NumLines :
            HashLine(i) =>
                /\ line_info[i].type = "pgp_envelope"
                /\ AllCodesAt(errors, i) = <<>>
                /\ AllCodesAt(recommendations, i) = <<>>
                /\ AllCodesAt(notifications, i) = <<>>
                /\ i \notin FieldRecords(<<"hash">>)

\* C11, what the code does: such a line is a pgp-envelope line that keeps the
\* whole line as its value, has no recommendation and no notification, adds
\* no value to FieldValues, and has no error but the two spacing errors,
\* which it has exactly when it is spaced that way.
C11_HashLineSpacingOnly ==
    Ended =>
        /\ \A i \in 1..NumLines :
              HashLine(i) =>
                  /\ line_info[i].type = "pgp_envelope"
                  /\ line_info[i].value = Body(i)
                  /\ AllCodesAt(errors, i)
                        = If(RStrip(RawNameOf(i)) # RawNameOf(i), "prec_ws")
                          \o If(AfterColon(i) # <<>> /\ AfterColon(i)[1] # SP,
                                "no_space")
                  /\ AllCodesAt(recommendations, i) = <<>>
                  /\ AllCodesAt(notifications, i) = <<>>
        /\ Len(ValuesGet(<<"hash">>)) = Cardinality(FieldRecords(<<"hash">>))

\* C11, the failing case as a state the runs reach: three hash headers, one
\* with prec_ws, one with no_space, and one with an empty value and no error.
C11_HashLinesWithSpacingErrors ==
    /\ Returned
    /\ \E i, j, k \in 1..NumLines :
          /\ HashLine(i) /\ AllCodesAt(errors, i) = <<"prec_ws">>
          /\ HashLine(j) /\ AllCodesAt(errors, j) = <<"no_space">>
          /\ HashLine(k) /\ AfterColon(k) = <<>> /\ AllCodesAt(errors, k) = <<>>
    /\ ~InValues(<<"hash">>)

(***************************************************************************)
(* C12.  The line number of no_line_separators.                            *)
(***************************************************************************)
\* C12 as claimed: for a text of n lines the error carries n + 1.
C12_OnePastLastLine ==
    Returned =>
        \A k \in 1..Len(errors) :
            errors[k].code = "no_line_separators" => errors[k].line = NumLines + 1

\* C12 as amended: for a text of n lines, the empty piece after a final line
\* feed counted, the error carries n, the number of the last line; it is
\* reported at most once.
C12_LastLine ==
    Returned =>
        /\ \A k \in 1..Len(errors) :
              errors[k].code = "no_line_separators" =>
                  errors[k].line = NumLines /\ NumLines = Len(line_info)
        /\ Count(errors, "no_line_separators") <= 1

C12_Witness ==
    /\ Returned
    /\ NumLines = 3
    /\ NthLine(3) # <<>>
    /\ HasAt(errors, "no_line_separators", 3)

(***************************************************************************)
(* C13.  no_line_separators is reported exactly when the text does not end *)
(* with a line feed: a text that ends with one has a last LineRecord of    *)
(* kind empty and no such error, in any envelope state, and a text that    *)
(* does not end with one has the error.                                    *)
(* The code does not do this.  It tests the kind of the last LineRecord:   *)
(* the empty piece after a final line feed is a pgp-envelope line while    *)
(* the signature block is open, so the error is reported for a text that   *)
(* ends with a line feed; and a last line of white space only, or an empty *)
(* text, is of kind empty, so no error is reported for a text that does    *)
(* not end with a line feed.                                               *)
(***************************************************************************)
EndsWithLineFeed == content # <<>> /\ content[Len(content)] = LF

C13_ExactlyWhenUnterminated ==
    Returned =>
        /\ HasCode(errors, "no_line_separators") <=> ~EndsWithLineFeed
        /\ EndsWithLineFeed => line_info[Len(line_info)].type = "empty"

\* C13, what the runs that return do: the error is reported exactly when the
\* last LineRecord is not of kind empty, which is when the signature block is
\* open at the end of the text or the last line holds more than white space.
C13_WhenLastRecordNotEmpty ==
    Returned =>
        /\ HasCode(errors, "no_line_separators")
              <=> line_info[Len(line_info)].type # "empty"
        /\ line_info[Len(line_info)].type # "empty"
              <=> (reading_sig \/ RStrip(NthLine(NumLines)) # <<>>)

\* C13, the two ways it fails, as states the runs reach.
C13_ReportedThoughTerminated ==
    Returned /\ EndsWithLineFeed /\ HasCode(errors, "no_line_separators")

C13_SilentThoughUnterminated ==
    /\ Returned /\ ~EndsWithLineFeed /\ content # <<>>
    /\ ~HasCode(errors, "no_line_separators")

(***************************************************************************)
(* C14.  After the signature block.  A line is empty when nothing but      *)
(* white space stands on it.  Once signature_finished is true, the step    *)
(* that classifies a line that is not empty appends one LineRecord of kind *)
(* error and one data_after_sig error with the number of the line, and     *)
(* leaves FieldValues, the recommendations, the notifications and the      *)
(* envelope flags as they are; the step that classifies an empty line      *)
(* appends one LineRecord of kind empty and no diagnostic.                 *)
(***************************************************************************)
LineRecord(type, value) == [type |-> type, field_name |-> <<>>, value |-> value]

AtLine == pc = "loop" /\ line_no <= Len(lines)

C14_AfterSignature ==
    [][(finished_sig /\ AtLine) =>
          /\ line_no' = line_no + 1
          /\ UNCHANGED <<values, langs, recommendations, notifications,
                         signed, reading_sig, finished_sig, pc, exc>>
          /\ IF RStrip(lines[line_no]) # <<>>
             THEN /\ line_info' = Append(line_info,
                                         LineRecord("error",
                                                    RStrip(lines[line_no])))
                  /\ errors' = Append(errors, Diag("data_after_sig", line_no))
             ELSE /\ line_info' = Append(line_info, LineRecord("empty", <<>>))
                  /\ errors' = errors]_vars

C14_Witness ==
    /\ Returned /\ EnvState = "signature-done"
    /\ NumLines = 5
    /\ line_info[4] = LineRecord("error", ContactMailto)
    /\ line_info[5].type = "empty" /\ NthLine(5) # <<>>
    /\ Codes(errors) = <<"data_after_sig", "no_expire", "no_contact">>
    /\ ~InValues(<<"contact">>)

(***************************************************************************)
(* C15.  Inside the signature block.  While reading_signature is true, the *)
(* step that classifies a line, whatever stands on it, appends one         *)
(* LineRecord of kind pgp-envelope with the line as its value and no       *)
(* diagnostic, and leaves FieldValues as they are; the envelope flags      *)
(* change only at a line that is the END PGP SIGNATURE marker, which moves *)
(* them to signature-finished.                                             *)
(***************************************************************************)
C15_InsideSignature ==
    [][(reading_sig /\ AtLine) =>
          /\ line_no' = line_no + 1
          /\ line_info' = Append(line_info,
                                 LineRecord("pgp_envelope",
                                            RStrip(lines[line_no])))
          /\ UNCHANGED <<values, langs, errors, recommendations,
                         notifications, signed, pc, exc>>
          /\ IF RStrip(lines[line_no]) = <<END_SIGNATURE>>
             THEN ~reading_sig' /\ finished_sig'
             ELSE UNCHANGED <<reading_sig, finished_sig>>]_vars

\* A Contact line in the block, not counted by the cross-field pass.
C15_Witness ==
    /\ Returned /\ EnvState = "signature-done"
    /\ NumLines = 5
    /\ line_info[3] = LineRecord("pgp_envelope", ContactMailto)
    /\ line_info[4] = LineRecord("pgp_envelope", <<END_SIGNATURE>>)
    /\ NthLine(4) = <<END_SIGNATURE, "\r">>
    /\ Codes(errors) = <<"no_expire", "no_contact">>
    /\ values = <<>>

(***************************************************************************)
(* C16.  A field line with an empty name or an empty value.  A field line  *)
(* is a line that goes to the field extractor and is not the hash header   *)
(* of a signed text.  Such a line is of kind error and keeps the whole     *)
(* line as its value; after the spacing errors it has empty_key when the   *)
(* name is empty and empty_value otherwise, and no other diagnostic; no    *)
(* value is appended for it, so every value in FieldValues belongs to a    *)
(* LineRecord of kind field; and the cross-field pass reports no_expire    *)
(* and no_contact when no LineRecord of kind field has that name.          *)
(***************************************************************************)
EmptyFieldLine(i) ==
    /\ i <= Len(line_info)
    /\ FieldLine(i)
    /\ ~(NameOf(i) = <<"hash">> /\ SignedBefore(i))
    /\ NameOf(i) = <<>> \/ LStrip(AfterColon(i)) = <<>>

SpacingErrors(i) ==
    If(RStrip(RawNameOf(i)) # RawNameOf(i), "prec_ws")
    \o If(AfterColon(i) # <<>> /\ AfterColon(i)[1] # SP, "no_space")

FieldNames ==
    {line_info[i].field_name :
        i \in {j \in 1..Len(line_info) : line_info[j].type = "field"}}

C16_EmptyNameOrValue ==
    /\ Ended =>
          \A i \in 1..NumLines :
              EmptyFieldLine(i) =>
                  /\ line_info[i] = LineRecord("error", Body(i))
                  /\ AllCodesAt(errors, i)
                        = SpacingErrors(i)
                          \o (IF NameOf(i) = <<>> THEN <<"empty_key">>
                              ELSE <<"empty_value">>)
                  /\ AllCodesAt(recommendations, i) = <<>>
                  /\ AllCodesAt(notifications, i) = <<>>
    /\ DOMAIN values = FieldNames
    /\ \A name \in DOMAIN values :
          Len(values[name]) = Cardinality(FieldRecords(name))
    /\ Returned =>
          /\ Len(line_info) = NumLines
          /\ FieldRecords(<<"expires">>) = {} => HasCode(errors, "no_expire")
          /\ FieldRecords(<<"contact">>) = {} => HasCode(errors, "no_contact")

C16_Witness ==
    /\ Returned
    /\ NumLines = 2
    /\ NameOf(1) = <<>>
    /\ NameOf(2) = <<"contact">> /\ NthLine(2) # Body(2)
    /\ line_info[2] = LineRecord("error", <<"Contact", ":">>)
    /\ Codes(errors) = <<"no_space", "empty_key", "empty_value", "no_expire",
                         "no_line_separators", "no_contact">>
    /\ notifications = <<>>
    /\ values = <<>>

(***************************************************************************)
(* C17.  no_canonical_match is among the errors of a run exactly when the  *)
(* caller gave at least one URL, at least one Canonical value was          *)
(* recorded, and no URL given is equal to a recorded Canonical value; it   *)
(* is reported once and without a line number.                             *)
(***************************************************************************)
CanonicalValues ==
    {line_info[i].value : i \in FieldRecords(<<"canonical">>)}

UrlsGiven == IF urls.t = "None" THEN {} ELSE {urls.l[k] : k \in 1..Len(urls.l)}

C17_NoCanonicalMatch ==
    Returned =>
        /\ HasCode(errors, "no_canonical_match")
              <=> /\ UrlsGiven # {}
                  /\ CanonicalValues # {}
                  /\ UrlsGiven \cap CanonicalValues = {}
        /\ Count(errors, "no_canonical_match") <= 1
        /\ \A k \in 1..Len(errors) :
              errors[k].code = "no_canonical_match" => errors[k].line = None

C17_Witness ==
    /\ Returned
    /\ urls = ListArg(<<UrlC, UrlB>>)
    /\ CanonicalValues = {UrlA}
    /\ HasAt(errors, "no_canonical_match", None)

\* C17, the cases without the error that the runs reach: a match with the
\* last and with the first of two URLs, URLs without a Canonical field, a
\* Canonical field without URLs.
C17_MatchLast ==
    /\ Returned /\ urls = ListArg(<<UrlC, UrlB>>)
    /\ CanonicalValues = {UrlA, UrlB}
    /\ ~HasCode(errors, "no_canonical_match")

C17_MatchFirst ==
    /\ Returned /\ urls = ListArg(<<UrlA, UrlC>>)
    /\ CanonicalValues = {UrlA, UrlB}
    /\ ~HasCode(errors, "no_canonical_match")

C17_EmptyList ==
    /\ Returned /\ urls = ListArg(<<>>) /\ CanonicalValues # {}
    /\ ~HasCode(errors, "no_canonical_match")

(***************************************************************************)
(* C18.  The three diagnostic lists.  Every step leaves each list a prefix *)
(* of what it becomes; what the step that classifies line i appends        *)
(* carries the number i; what the cross-field pass appends carries no      *)
(* number, no_line_separators excepted; and in every list the diagnostics  *)
(* of the line pass stand in the order of their lines and before those of  *)
(* the cross-field pass.                                                   *)
(***************************************************************************)
IsPrefix(s, t) == Len(s) <= Len(t) /\ SubSeq(t, 1, Len(s)) = s

\* Whether a diagnostic is one of the cross-field pass.
CrossField(d) == d.line = None \/ d.code = "no_line_separators"

OrderedPasses(list) ==
    \A j, k \in 1..Len(list) :
        j < k =>
            /\ CrossField(list[j]) => CrossField(list[k])
            /\ (~CrossField(list[j]) /\ ~CrossField(list[k]))
                  => list[j].line <= list[k].line

AppendedAt(old, new, i) ==
    /\ IsPrefix(old, new)
    /\ \A k \in (Len(old) + 1)..Len(new) : new[k].line = i /\ i \in 1..NumLines

AppendedAtEnd(old, new) ==
    /\ IsPrefix(old, new)
    /\ \A k \in (Len(old) + 1)..Len(new) :
          \/ new[k].line = None
          \/ new[k].code = "no_line_separators" /\ new[k].line \in 1..NumLines

C18_AppendOnly ==
    [][/\ IsPrefix(errors, errors')
       /\ IsPrefix(recommendations, recommendations')
       /\ IsPrefix(notifications, notifications')
       /\ AtLine =>
             /\ AppendedAt(errors, errors', line_no)
             /\ AppendedAt(recommendations, recommendations', line_no)
             /\ AppendedAt(notifications, notifications', line_no)
       /\ (pc = "loop" /\ ~AtLine) =>
             /\ AppendedAtEnd(errors, errors')
             /\ AppendedAtEnd(recommendations, recommendations')
             /\ AppendedAtEnd(notifications, notifications')
       /\ OrderedPasses(errors')
       /\ OrderedPasses(recommendations')
       /\ OrderedPasses(notifications')
       /\ pc' # "done" =>
             \A k \in 1..Len(errors') : ~CrossField(errors'[k])]_vars

C18_Witness ==
    /\ Returned
    /\ errors = <<Diag("no_space", 1), Diag("no_space", 2),
                  Diag("no_expire", None), Diag("no_line_separators", 2)>>
    /\ recommendations = <<Diag("not_signed", None)>>
    /\ notifications = <<Diag("unknown_field", 1)>>

(***************************************************************************)
(* C19.  The dash escape.                                                  *)
(***************************************************************************)
DashEscape == <<"-", SP>>

\* The step gives what the classifier returns as r: its LineRecord, its
\* diagnostics with the number of the line, its envelope flags and its value
\* in FieldValues; or its exception.
Gives(r) ==
    /\ errors' = errors \o Diags(r.errs, line_no)
    /\ IF r.exc # ""
       THEN pc' = "raised" /\ exc' = r.exc
       ELSE /\ pc' = pc
            /\ line_info' = Append(line_info,
                                   [type |-> r.type,
                                    field_name |-> r.field_name,
                                    value |-> r.value])
            /\ recommendations' = recommendations \o Diags(r.recs, line_no)
            /\ notifications' = notifications \o Diags(r.notes, line_no)
            /\ signed' = r.signed
            /\ reading_sig' = r.reading_sig
            /\ finished_sig' = r.finished_sig
            /\ langs' = r.langs
            /\ values' = IF r.record
                         THEN ValuesAppend(r.field_name, r.value)
                         ELSE values

\* The step takes the text, which begins with a dash and a space, as it is
\* written: a field whose name begins with the dash, or else an error line
\* that keeps the whole text; the envelope flags stay.
AsWritten(text) ==
    LET rec == line_info'[Len(line_info')]
        name == RStrip(Lower(SubSeq(text, 1, Find(text, ":") - 1)))
    IN  /\ Len(line_info') = Len(line_info) + 1
        /\ UNCHANGED <<signed, reading_sig, finished_sig>>
        /\ IF Contains(text, ":") /\ LStrip(Drop(text, Find(text, ":"))) # <<>>
           THEN /\ rec = [type |-> "field", field_name |-> name,
                          value |-> LStrip(Drop(text, Find(text, ":")))]
                /\ StartsWith(name, DashEscape)
                /\ values' = ValuesAppend(name, rec.value)
                /\ notifications'
                      = notifications
                        \o Diags(If(recommend_unknown_fields, "unknown_field"),
                                 line_no)
           ELSE /\ rec = LineRecord("error", text)
                /\ Len(errors') > Len(errors)
                /\ errors'[Len(errors')].code
                      = (IF Contains(text, ":") THEN "empty_value"
                         ELSE "invalid_line")
                /\ UNCHANGED <<values, notifications>>

InCleartext == signed /\ ~reading_sig /\ ~finished_sig

\* C19 as claimed: in the signed cleartext a line "- X" is processed as the
\* line X is in the same state, whatever X is; in an unsigned text it is
\* processed as written.
C19_EscapedAsPlain ==
    [][(AtLine /\ StartsWith(lines[line_no], DashEscape)) =>
          /\ InCleartext => Gives(parse_line(Drop(lines[line_no], 2)))
          /\ ~signed => AsWritten(RStrip(lines[line_no]))]_vars

\* C19 as amended.  In the signed cleartext a line "- X", with X not empty
\* once the trailing white space is removed, is processed as the text X:
\* as the line X is in the same state when X does not begin with the escape
\* itself, and as X is written when it does (the escape is removed once).  A
\* line "- " with nothing but white space after the dash is the line "-",
\* an invalid_line error.  In an unsigned text "- X" is processed as written.
C19_EscapedOnce ==
    [][(AtLine /\ StartsWith(lines[line_no], DashEscape)) =>
          LET text == RStrip(lines[line_no])
              X == Drop(text, 2)
          IN  /\ (InCleartext /\ text = <<"-">>) =>
                    /\ line_info' = Append(line_info, LineRecord("error", text))
                    /\ errors' = Append(errors, Diag("invalid_line", line_no))
                    /\ UNCHANGED <<values, recommendations, notifications,
                                   signed, reading_sig, finished_sig>>
              /\ (InCleartext /\ text # <<"-">> /\ ~StartsWith(X, DashEscape))
                    => Gives(parse_line(X))
              /\ (InCleartext /\ text # <<"-">> /\ StartsWith(X, DashEscape))
                    => AsWritten(X)
              /\ ~signed => AsWritten(text)]_vars

C19_Witness ==
    /\ Returned /\ signed /\ ~BlockBefore(NumLines + 1)
    /\ \E i, j \in 2..NumLines :
          /\ NthLine(i) = DashEscape \o CanonicalA
          /\ line_info[i] = [type |-> "field", field_name |-> <<"canonical">>,
                             value |-> UrlA]
          /\ NthLine(j) = DashEscape \o <<BEGIN_SIGNED>>
          /\ line_info[j] = LineRecord("pgp_envelope", <<BEGIN_SIGNED>>)
          /\ HasAt(errors, "signed_format_issue", j)
    /\ values = (<<"canonical">> :> <<UrlA>>)

(***************************************************************************)
(* C20.  When SecurityTXT makes the bytes of the response a text, a        *)
(* bom_in_file error is recorded exactly when the bytes begin with the     *)
(* UTF-8 byte-order mark, and a utf8 error exactly when the bytes are not  *)
(* valid UTF-8.                                                            *)
(* The code does not do this: the call that records bom_in_file stands     *)
(* after the if, not in it, so the error is recorded for every body, with  *)
(* or without the mark.  And the bytes are decoded after every occurrence  *)
(* of the mark was removed, which can make ill-formed bytes well-formed.   *)
(***************************************************************************)
Converted ==
    pc \notin {"probe", "get_str"} /\ (pc = "end" => security_txt_found)

C20_BomAndUtf8 ==
    Converted =>
        /\ HasCode(errors, "bom_in_file") <=> StartsWith(resp_content, BOM_UTF8)
        /\ HasCode(errors, "utf8") <=> ~Utf8Valid(resp_content)

\* C20, what the code does: bom_in_file is the first error after those of
\* the probes for every body,
\* utf8 follows exactly when the bytes that are left once the marks were
\* removed from a body that begins with one are ill-formed, both without a
\* line number, and the text is what the decoder makes of those bytes.
C20_BomAlways ==
    LET left == IF StartsWith(resp_content, BOM_UTF8)
                THEN RemoveAll(resp_content, BOM_UTF8) ELSE resp_content
        ProbeCodes == {"invalid_cert", "invalid_uri_scheme", "location",
                       "no_content_type", "invalid_media", "invalid_charset"}
    IN  Converted =>
            /\ Count(errors, "bom_in_file") = 1
            /\ \E i \in 1..Len(errors) :
                  /\ errors[i] = Diag("bom_in_file", None)
                  /\ \A j \in 1..(i - 1) : errors[j].code \in ProbeCodes
                  /\ HasCode(errors, "utf8") =>
                        Len(errors) > i /\ errors[i + 1] = Diag("utf8", None)
            /\ HasCode(errors, "utf8") <=> ~Utf8Valid(left)
            /\ content = Utf8Decode(left)

\* C20, the two ways it fails, as states the runs reach.
C20_BomWithoutMark ==
    /\ Returned
    /\ resp_content = <<"61", "0A">>
    /\ Utf8Valid(resp_content)
    /\ HasAt(errors, "bom_in_file", None)

C20_IllFormedWithoutUtf8 ==
    /\ Returned
    /\ StartsWith(resp_content, BOM_UTF8)
    /\ ~Utf8Valid(resp_content)
    /\ ~HasCode(errors, "utf8")

(***************************************************************************)
(* C21.  SecurityTXT asks the four locations in the fixed order            *)
(* https/.well-known/security.txt, https/security.txt,                     *)
(* http/.well-known/security.txt, http/security.txt.  It stops at the      *)
(* first location answered with status 200 and runs the pass of the lines  *)
(* and the cross-field pass exactly once, on the body of that answer and   *)
(* never on that of a later location; a location that fails or answers     *)
(* with another status is followed by the next one.  no_security_txt is    *)
(* recorded exactly when no location answered with status 200, and then no *)
(* line is classified and no cross-field check runs.  invalid_cert is      *)
(* recorded at most once over all the locations.                           *)
(***************************************************************************)
\* The fixed order, as URLs.
FixedOrder ==
    <<<<"https", ":", "//example.com/.well-known/security.txt">>,
      <<"https", ":", "//example.com/security.txt">>,
      <<"http", ":", "//example.com/.well-known/security.txt">>,
      <<"http", ":", "//example.com/security.txt">>>>

\* The locations whose answer, with or without verification, has status 200.
Hits ==
    {k \in 1..4 :
        /\ net[k].status_code = 200
        /\ \/ net[k].first = "ok"
           \/ net[k].first = "SSLError" /\ net[k].retry = "ok"}

FirstHit == IF Hits = {} THEN 0 ELSE CHOOSE k \in Hits : \A j \in Hits : k <= j

\* The requests that open a location, in the order they were made: every
\* other request is the one without verification that follows SSLError.
Asked == SelectSeq(gets, LAMBDA g : g.verify)

\* A run of SecurityTXT is over: it returned or the pass raised.
ProbesEnded == pc \in {"end", "raised"}

\* The pass was started.
PassStarted == pc \notin {"probe", "get_str"} /\ (pc = "end" => Hits # {})

C21_ProbeOrder ==
    \* the fixed order, one location after the other
    /\ Len(Asked) <= 4
    /\ \A i \in 1..Len(Asked) : Asked[i].url = FixedOrder[i]
    /\ \A i \in 1..Len(gets) :
          ~gets[i].verify =>
              i > 1 /\ gets[i - 1].verify /\ gets[i - 1].url = gets[i].url
    \* no location after the first one answered with status 200
    /\ Hits # {} => Len(Asked) <= FirstHit
    \* a location that fails or answers otherwise is followed by the next
    /\ (ProbesEnded \/ PassStarted) =>
          Len(Asked) = IF Hits = {} THEN 4 ELSE FirstHit
    \* the pass runs once, on the body of the first such answer
    /\ pc \in {"get_str", "process"} =>
          /\ line_info = <<>> /\ lines = <<>> /\ ~security_txt_found
          /\ resp_content = net[FirstHit].content
    /\ PassStarted =>
          /\ resp_content = net[FirstHit].content
          /\ content = get_str(resp_content).str
          /\ url = FixedOrder[FirstHit]
    /\ (pc = "end" /\ Hits # {}) =>
          /\ security_txt_found
          /\ Len(line_info) = NumLines
          /\ Count(errors, "no_contact")
                = IF FieldRecords(<<"contact">>) = {} THEN 1 ELSE 0
          /\ Count(errors, "no_expire")
                = IF FieldRecords(<<"expires">>) = {} THEN 1 ELSE 0
          /\ Count(errors, "no_line_separators") <= 1
          /\ Count(errors, "no_canonical_match") <= 1
    \* no_security_txt
    /\ HasCode(errors, "no_security_txt") => pc = "end"
    /\ ProbesEnded => (HasCode(errors, "no_security_txt") <=> Hits = {})
    /\ (pc = "end" /\ Hits = {}) =>
          /\ ~security_txt_found
          /\ lines = <<>> /\ line_info = <<>> /\ values = <<>>
          /\ content = <<>>
          /\ recommendations = <<>> /\ notifications = <<>>
          /\ Codes(errors) \in {<<"no_security_txt">>,
                                <<"invalid_cert", "no_security_txt">>}
    \* invalid_cert
    /\ Count(errors, "invalid_cert") <= 1

\* C21, its case: the first two locations raise SSLError and give no answer
\* with status 200, the third and the fourth answer with status 200; the
\* third was asked last, its body was read, invalid_cert stands once.
C21_Witness ==
    /\ pc = "end"
    /\ net[1].first = "SSLError"
    /\ net[2].first = "SSLError"
    /\ Hits = {3, 4}
    /\ Len(gets) = 5
    /\ gets[5].url = <<"http", ":", "//example.com/.well-known/security.txt">>
    /\ resp_content = BOM_UTF8 \o ContactMailto \o <<LF>>
    /\ Len(line_info) = 2
    /\ Count(errors, "invalid_cert") = 1
    /\ HasCode(errors, "invalid_uri_scheme")
    /\ ~HasCode(errors, "no_security_txt")

\* C21, further cases the runs reach: no location answers with status 200,
\* all four raising SSLError; and the pass raises on the body of the second
\* location, after which no location is asked.
C21_NoneFound ==
    /\ pc = "end"
    /\ \A k \in 1..4 : net[k].first = "SSLError"
    /\ Len(gets) = 8
    /\ Codes(errors) = <<"invalid_cert", "no_security_txt">>

C21_PassRaises ==
    /\ pc = "raised"
    /\ Hits = {2, 3, 4}
    /\ Len(Asked) = 2
    /\ ~HasCode(errors, "no_security_txt")

====
